---- MODULE Spec2Model ----
(***************************************************************************)
(* State-machine model of the Shortcut-Composer plugin.                    *)
(*                                                                         *)
(* Components that share no state are modelled side by side:               *)
(*   - the pie menu: PieManager (mouse polling loop) and LabelAnimator,    *)
(*     templates/pie_menu_utils/pie_manager.py                             *)
(*   - DoubleAxisTracker and its MouseComparator,                          *)
(*     templates/mouse_tracker_utils/axis_trackers.py                      *)
(*   - the press/release adapter that drives a ComplexActionInterface,     *)
(*     input_adapter/complex_action_interface.py                           *)
(*   - the configuration fields: FieldBase and Config,                     *)
(*     config_system/field_base.py, composer_utils/config/global_config.py *)
(*   - SingleAxisTracker and LayerPicker,                                  *)
(*     composer_library/shortcut_templates/layer_picker.py                 *)
(* Each component has its own next-state relation and specification; the   *)
(* variables of the other components stay at their initial values.         *)
(***************************************************************************)
EXTENDS Integers, Sequences, FiniteSets, TLC

VARIABLES
    \* ---- pie menu ----
    cursor,       \* QCursor().pos(): absolute cursor position <<x, y>>
    circle,       \* PieManager._circle centre, NoPoint before the first start()
    deadzone,     \* PieWidget.deadzone (radius)
    visible,      \* PieWidget.isVisible()
    pollTimer,    \* PieManager._timer is running
    animTimer,    \* LabelAnimator._timer is running
    active,       \* PieWidget.active: a label or None
    progress,     \* label -> Label.activation_progress.value, in 0..ProgressMax
    pieLast,      \* history: the handler that ran last
    animStarted,  \* history: the last handler called LabelAnimator.start()
    stopRepeat,   \* history: the last handler was stop() on an ended session
    draggable,    \* the pie widget can be dragged
    settingsVisible, \* PieSettings.isVisible()
    \* ---- DoubleAxisTracker ----
    mouse,        \* Krita.get_cursor(): <<x, y>> in pixels
    startPos,     \* MouseComparator.start_x, start_y; NoPoint before a press
    keyDown,      \* the shortcut key is held
    decisionTimer,\* DoubleAxisTracker._timer is running
    hTracking,    \* horizontal SliderHandler is tracking
    vTracking,    \* vertical SliderHandler is tracking
    startsThisPress, \* history: handler starts since the last on_key_press
    earlyRelease, \* history: the last release came before any handler start
    trackerLast,  \* history: the handler that ran last
    \* ---- press/release adapter ----
    physDown,     \* the physical key is down
    keyReleased,  \* adapter flag: the last accepted event was a release
    now,          \* clock, in tenths of a second
    lastPressTime,\* timestamp of the last accepted press
    shortVsLongPressTime, \* the action's threshold, in tenths of a second
    callLog,      \* callbacks invoked since the last physical key-down
    downAt,       \* history: time of the last physical key-down
    \* ---- configuration fields ----
    store,        \* Krita settings store: field -> raw string or NotStored
    callbacks,    \* field -> FieldBase._on_change_callbacks
    cfgLast,      \* history: the operation that ran last
    cfgArg,       \* history: <<field, value>> of the last write()
    raised,       \* history: the last operation raised TypeError
    opLog,        \* history: store writes and callbacks of the last operation
    sleepTime,    \* history: result of the last Config.get_sleep_time()
    \* ---- SingleAxisTracker and LayerPicker ----
    template,       \* the class of the action bound to the key
    pickStrategy,   \* LayerPicker.pick_strategy
    activeDocument, \* Krita.get_active_document()
    nodeVisible,    \* node -> Node.is_visible()
    currentNode,    \* document -> Document.current_node()
    valuesToCycle,  \* the slider's values to cycle
    handlerTracking,\* the action's slider handler is tracking
    pickerKeyDown,  \* the shortcut key of the action is held
    pickerLast,     \* history: the handler that ran last
    pickerLog,      \* history: the calls the last handler made, in order
    oldValues,      \* history: the slider's values before the last press
    \* ---- UndoController ----
    undoState,    \* UndoController.state: remembered position on the undo stack
    redos,        \* "edit_redo" actions the controller triggered
    undos,        \* "edit_undo" actions the controller triggered
    undoArg,      \* history: argument of the last set_value(), in halves
    undoTriggered,\* history: the host action the last set_value() triggered
    \* ---- PresetController ----
    presetCatalog,\* Krita.get_presets(): the names in the host's catalog
    presetLast,   \* history: the operation that ran last
    labelArg,     \* history: argument of the last get_label()
    labelResult,  \* history: what the last get_label() returned
    labelRaised,  \* history: the last get_label() raised
    \* ---- node-scoped controllers ----
    layers,       \* node -> [opacity, blending_mode, visible] in the host
    hostActiveNode, \* Document.active_node in the host
    controller,   \* the controller in use, named by the property it handles
    capturedNode, \* the controller's active_node, NoNode before refresh()
    ctlLast,      \* history: the operation that ran last
    ctlArg,       \* history: <<controller, value>> of the last set_value()
    ctlLog,       \* history: the host calls of the last set_value(), in order
    ctlRaised,    \* history: the last set_value() raised AttributeError
    \* ---- OffsetGridLayout ----
    maxColumns,   \* OffsetGridLayout._max_columns
    widgets,      \* OffsetGridLayout._widgets
    placed,       \* the grid cell <<row, col>> of each held widget's block
    gridLast,     \* history: the operation that ran last
    gridArg,      \* history: the widget passed to the last insert or append
    gridSkipped,  \* history: _internal_insert calls that returned early
    \* ---- LabelWidget ----
    lwEnabled,    \* LabelWidget._enabled
    lwDraggable,  \* LabelWidget._draggable
    lwCursor,     \* the cursor shape set on the widget
    lwHovered,    \* LabelWidget._hovered
    lwDrags,      \* drag loops started by mousePressEvent
    lwLast,       \* history: the operation that ran last
    lwButtons     \* history: the buttons of the last mouse press

pieVars == <<cursor, circle, deadzone, visible, pollTimer, animTimer, active,
             progress, pieLast, animStarted, stopRepeat, draggable,
             settingsVisible>>
trackerVars == <<mouse, startPos, keyDown, decisionTimer, hTracking, vTracking,
                 startsThisPress, earlyRelease, trackerLast>>
adapterVars == <<physDown, keyReleased, now, lastPressTime,
                 shortVsLongPressTime, callLog, downAt>>
configVars == <<store, callbacks, cfgLast, cfgArg, raised, opLog, sleepTime>>
undoVars == <<undoState, redos, undos, undoArg, undoTriggered>>
presetVars == <<presetCatalog, presetLast, labelArg, labelResult, labelRaised>>
nodeVars == <<layers, hostActiveNode, controller, capturedNode, ctlLast, ctlArg, ctlLog,
             ctlRaised>>
gridVars == <<maxColumns, widgets, placed, gridLast, gridArg, gridSkipped>>
labelVars == <<lwEnabled, lwDraggable, lwCursor, lwHovered, lwDrags, lwLast,
              lwButtons>>
pickerVars == <<template, pickStrategy, activeDocument, nodeVisible,
                currentNode, valuesToCycle, handlerTracking, pickerKeyDown,
                pickerLast, pickerLog, oldValues>>
vars == <<pieVars, trackerVars, adapterVars, configVars, pickerVars,
         undoVars,
         presetVars,
         nodeVars,
         gridVars,
         labelVars>>

(***************************************************************************)
(* Bounds and constants                                                    *)
(***************************************************************************)
NumLabels == 3          \* labels held by the pie widget
ProgressMax == 3        \* fixed-point unit: progress value 1.0
ProgressStep == 2       \* progress change of one up()/down() call
MaxDeadzone == 2        \* largest deadzone radius tried
Coords == {-1, 0, 1}    \* screen coordinates the pie cursor can take

None == -1                \* PieWidget.active is None
NoPoint == <<>>          \* a position that was never captured
Labels == 0 .. (NumLabels - 1)
Points == Coords \X Coords

Abs(n) == IF n < 0 THEN -n ELSE n
Min(a, b) == IF a < b THEN a ELSE b
Max(a, b) == IF a > b THEN a ELSE b

(***************************************************************************)
(* ActivationProgress (label.py): a scalar in [0,1], stepped per tick and  *)
(* clamped; reset() returns it to the rest state 0.                        *)
(***************************************************************************)
ProgressUp(v) == Min(v + ProgressStep, ProgressMax)
ProgressDown(v) == Max(v - ProgressStep, 0)
ProgressReset(v) == 0

(***************************************************************************)
(* CirclePoints (widget_utils): distance and angle of a point from the     *)
(* centre.  Distances are compared by their squares.  Angles are whole     *)
(* degrees, 0 at the top, clockwise (screen y grows downwards).            *)
(***************************************************************************)
DistanceSq(centre, point) ==
    (point[1] - centre[1]) * (point[1] - centre[1])
    + (point[2] - centre[2]) * (point[2] - centre[2])

\* arctan(a/b) in degrees for 0 <= a <= b, b > 0 (error below 0.3 degree)
AtanDeg(a, b) == (45000 * a * b + 15640 * a * (b - a)) \div (1000 * b * b)

AngleFromPoint(centre, point) ==
    LET dx == point[1] - centre[1]
        dy == point[2] - centre[2]
        ax == Abs(dx)
        ay == Abs(dy)
        fromAxis == IF ax <= ay THEN AtanDeg(ax, ay) ELSE 90 - AtanDeg(ay, ax)
    IN  IF dx = 0 /\ dy = 0 THEN 0
        ELSE IF dx >= 0 /\ dy < 0 THEN fromAxis
        ELSE IF dx > 0 /\ dy >= 0 THEN 180 - fromAxis
        ELSE IF dx <= 0 /\ dy > 0 THEN 180 + fromAxis
        ELSE (360 - fromAxis) % 360

(***************************************************************************)
(* WidgetHolder.on_angle: the label whose angle is nearest to the given    *)
(* one.  Label i sits at 360*i/NumLabels degrees; differences are scaled   *)
(* by NumLabels to stay in the integers.  Ties go to the lower index.      *)
(***************************************************************************)
AngleDifference(i, angle) ==
    LET raw == 360 * i - NumLabels * angle
    IN  Abs(((raw + 180 * NumLabels) % (360 * NumLabels)) - 180 * NumLabels)

OnAngle(angle) ==
    CHOOSE i \in Labels :
        \A j \in Labels :
            \/ AngleDifference(i, angle) < AngleDifference(j, angle)
            \/ AngleDifference(i, angle) = AngleDifference(j, angle) /\ i <= j

(***************************************************************************)
(* PieManager                                                              *)
(***************************************************************************)
\* mutant: stop() forgets to reset the labels
StoppedProgressKept(p) == p
\* mutant: stop() hides the widget whatever `hide` says
VisibleAfterStopAlwaysHides(hide, vis) == FALSE

\* mutant: hiding flips the widget's visibility
VisibleAfterStopToggle(hide, vis) == IF hide THEN ~vis ELSE vis

\* PieManager.stop: the state of labels and widget it leaves
StoppedProgress(p) == [l \in Labels |-> ProgressReset(p[l])]
VisibleAfterStop(hide, vis) == IF hide THEN FALSE ELSE vis

\* mutant: the distance is taken from the screen origin, not from the centre
InDeadzoneFromOrigin(centre, point, dz) == DistanceSq(<<0, 0>>, point) < dz * dz

\* PieManager._handle_cursor: the label (or None) the poll computes
InDeadzone(centre, point, dz) == DistanceSq(centre, point) < dz * dz

\* mutant: the angle is taken from the cursor towards the centre
ComputedLabelReversed(centre, point, dz) ==
    IF InDeadzone(centre, point, dz) THEN None
    ELSE OnAngle(AngleFromPoint(point, centre))

ComputedLabel(centre, point, dz) ==
    IF InDeadzone(centre, point, dz) THEN None
    ELSE OnAngle(AngleFromPoint(centre, point))

\* mutant: every poll is reported as a change
ActiveChangesAlways(current, label) == TRUE

\* PieManager._set_active_label: does the label differ from the active one
ActiveChanges(current, label) == current # label

\* mutant: the comparison with the active label is inverted
SteppedProgressInverted(p, act) ==
    [l \in Labels |-> IF act # l THEN ProgressUp(p[l]) ELSE ProgressDown(p[l])]

\* LabelAnimator._update: one step of every label
SteppedProgress(p, act) ==
    [l \in Labels |-> IF act = l THEN ProgressUp(p[l]) ELSE ProgressDown(p[l])]

\* mutant: the animation ends only when every label is fully active
AnimationEndedAllFull(p) == \A l \in Labels : p[l] = ProgressMax
\* mutant: the animation ends as soon as one label is at a bound
AnimationEndedAny(p) == \E l \in Labels : p[l] \in {0, ProgressMax}

\* LabelAnimator._update: the animation has ended
AnimationEnded(p) == \A l \in Labels : p[l] \in {0, ProgressMax}

\* mutant: start() on a running timer switches it off
AnimatorStartToggle(running) == ~running

\* LabelAnimator.start: the timer runs afterwards, whether or not it ran before
AnimatorStart(running) == TRUE

\* mutant: start() leaves the widget's draggable flag alone
DraggableAfterStartKept(was) == was

\* PieManager.start: set_draggable(False); settings show(), move, hide()
DraggableAfterStart(was) == FALSE
SettingsAfterStart(was) == FALSE

\* the tag a stop(hide) call leaves in the history
StopTag(hide) == IF hide THEN "stop" ELSE "stop_keep"

\* stop(hide) is called on a session that has already ended: the handler
\* before it was the same stop(hide), or the poll that stopped the loop itself
SessionEnded(hide, last, polling) ==
    last = StopTag(hide) \/ (last = "poll" /\ ~polling)

\* the other components do not move
PieFrame == UNCHANGED <<trackerVars, adapterVars, configVars, pickerVars,
        undoVars,
        presetVars,
        nodeVars,
        gridVars,
        labelVars>>

PieStart ==
    /\ circle' = cursor
    /\ visible' = TRUE
    /\ pollTimer' = TRUE
    /\ settingsVisible' = SettingsAfterStart(settingsVisible)
    /\ draggable' = DraggableAfterStart(draggable)
    /\ pieLast' = "start"
    /\ stopRepeat' = FALSE
    /\ animStarted' = FALSE
    /\ UNCHANGED <<cursor, deadzone, animTimer, active, progress>>
    /\ PieFrame

PieStop(hide) ==
    /\ pollTimer' = FALSE
    /\ progress' = StoppedProgress(progress)
    /\ visible' = VisibleAfterStop(hide, visible)
    /\ pieLast' = StopTag(hide)
    /\ stopRepeat' = SessionEnded(hide, pieLast, pollTimer)
    /\ animStarted' = FALSE
    /\ UNCHANGED <<cursor, circle, deadzone, animTimer, active, draggable,
                   settingsVisible>>
    /\ PieFrame

HandleCursor ==
    /\ pollTimer
    /\ IF ~visible
       THEN \* return self.stop()
            /\ pollTimer' = FALSE
            /\ progress' = StoppedProgress(progress)
            /\ visible' = VisibleAfterStop(TRUE, visible)
            /\ pieLast' = "poll"
            /\ stopRepeat' = FALSE
            /\ animStarted' = FALSE
            /\ UNCHANGED <<animTimer, active>>
       ELSE LET label == ComputedLabel(circle, cursor, deadzone)
            IN  /\ pieLast' = "poll"
                /\ stopRepeat' = FALSE
                /\ IF ActiveChanges(active, label)
                   THEN /\ active' = label
                        /\ animTimer' = AnimatorStart(animTimer)
                        /\ animStarted' = TRUE
                        /\ UNCHANGED <<pollTimer, progress, visible>>
                   ELSE /\ animStarted' = FALSE
                        /\ UNCHANGED <<pollTimer, progress, visible, animTimer,
                                       active>>
    /\ UNCHANGED <<cursor, circle, deadzone, draggable, settingsVisible>>
    /\ PieFrame

AnimatorUpdate ==
    /\ animTimer
    /\ progress' = SteppedProgress(progress, active)
    /\ animTimer' = ~AnimationEnded(progress')
    /\ pieLast' = "update"
    /\ stopRepeat' = FALSE
    /\ animStarted' = FALSE
    /\ UNCHANGED <<cursor, circle, deadzone, visible, pollTimer, active,
                   draggable, settingsVisible>>
    /\ PieFrame

\* the user moves the mouse
MoveCursor(p) ==
    /\ p # cursor
    /\ cursor' = p
    /\ pieLast' = "move"
    /\ stopRepeat' = FALSE
    /\ animStarted' = FALSE
    /\ UNCHANGED <<circle, deadzone, visible, pollTimer, animTimer, active,
                   progress, draggable, settingsVisible>>
    /\ PieFrame

\* the widget gets hidden outside of stop(): drag&drop, click outside
ExternalHide ==
    /\ visible
    /\ visible' = FALSE
    /\ pieLast' = "hide"
    /\ stopRepeat' = FALSE
    /\ animStarted' = FALSE
    /\ UNCHANGED <<cursor, circle, deadzone, pollTimer, animTimer, active,
                   progress, draggable, settingsVisible>>
    /\ PieFrame

\* edit mode: with the loop stopped and the pie kept on screen, the settings
\* window opens and reloads the widgets, which leaves the pie draggable
EnterEditMode ==
    /\ visible
    /\ ~pollTimer
    /\ ~settingsVisible
    /\ settingsVisible' = TRUE
    /\ draggable' = TRUE
    /\ pieLast' = "edit"
    /\ stopRepeat' = FALSE
    /\ animStarted' = FALSE
    /\ UNCHANGED <<cursor, circle, deadzone, visible, pollTimer, animTimer,
                   active, progress>>
    /\ PieFrame

\* the settings window is closed
LeaveEditMode ==
    /\ settingsVisible
    /\ settingsVisible' = FALSE
    /\ pieLast' = "edit"
    /\ stopRepeat' = FALSE
    /\ animStarted' = FALSE
    /\ UNCHANGED <<cursor, circle, deadzone, visible, pollTimer, animTimer,
                   active, progress, draggable>>
    /\ PieFrame

InitPie ==
    /\ cursor \in Points
    /\ circle = NoPoint
    /\ deadzone \in 0 .. MaxDeadzone
    /\ visible = FALSE
    /\ pollTimer = FALSE
    /\ animTimer = FALSE
    /\ active = None
    /\ progress = [l \in Labels |-> 0]
    /\ pieLast = "init"
    /\ animStarted = FALSE
    /\ stopRepeat = FALSE
    /\ draggable = FALSE
    /\ settingsVisible = FALSE

NextPie ==
    \/ PieStart
    \/ \E hide \in BOOLEAN : PieStop(hide)
    \/ HandleCursor
    \/ AnimatorUpdate
    \/ \E p \in Points : MoveCursor(p)
    \/ ExternalHide
    \/ EnterEditMode
    \/ LeaveEditMode

(***************************************************************************)
(* DoubleAxisTracker                                                       *)
(***************************************************************************)
Threshold == 10                  \* pixels an axis must exceed
Pixels == {0, 3, 10, 11, 15}     \* pixel coordinates the mouse can take
MousePoints == Pixels \X Pixels

\* MouseComparator.delta_x, delta_y, is_horizontal
DeltaX(start, cur) == Abs(start[1] - cur[1])
DeltaY(start, cur) == Abs(start[2] - cur[2])
\* mutant: a tie between the axes counts as horizontal
IsHorizontalOnTie(start, cur) == DeltaX(start, cur) >= DeltaY(start, cur)
IsHorizontal(start, cur) == DeltaX(start, cur) > DeltaY(start, cur)

\* _start_after_picking_slider: the early return
StillUndecided(start, cur) ==
    DeltaX(start, cur) <= Threshold /\ DeltaY(start, cur) <= Threshold

\* on_every_key_release: what it does to the decision timer (nothing)
TimerAfterRelease(running) == running

TrackerFrame == UNCHANGED <<pieVars, adapterVars, configVars, pickerVars,
        undoVars,
        presetVars,
        nodeVars,
        gridVars,
        labelVars>>

TrackerKeyPress ==
    /\ ~keyDown
    /\ keyDown' = TRUE
    /\ startPos' = mouse
    /\ decisionTimer' = TRUE
    /\ startsThisPress' = 0
    /\ earlyRelease' = FALSE
    /\ trackerLast' = "press"
    /\ UNCHANGED <<mouse, hTracking, vTracking>>
    /\ TrackerFrame

StartAfterPickingSlider ==
    /\ decisionTimer
    /\ IF StillUndecided(startPos, mouse)
       THEN /\ trackerLast' = "tick"
            /\ UNCHANGED <<decisionTimer, hTracking, vTracking,
                           startsThisPress>>
       ELSE /\ IF IsHorizontal(startPos, mouse)
               THEN hTracking' = TRUE /\ UNCHANGED vTracking
               ELSE vTracking' = TRUE /\ UNCHANGED hTracking
            /\ decisionTimer' = FALSE
            /\ startsThisPress' = startsThisPress + 1
            /\ trackerLast' = "tick"
    /\ UNCHANGED <<mouse, startPos, keyDown, earlyRelease>>
    /\ TrackerFrame

TrackerKeyRelease ==
    /\ keyDown
    /\ keyDown' = FALSE
    /\ hTracking' = FALSE
    /\ vTracking' = FALSE
    /\ decisionTimer' = TimerAfterRelease(decisionTimer)
    /\ earlyRelease' = (startsThisPress = 0)
    /\ trackerLast' = "release"
    /\ UNCHANGED <<mouse, startPos, startsThisPress>>
    /\ TrackerFrame

MoveMouse(p) ==
    /\ p # mouse
    /\ mouse' = p
    /\ trackerLast' = "move"
    /\ UNCHANGED <<startPos, keyDown, decisionTimer, hTracking, vTracking,
                   startsThisPress, earlyRelease>>
    /\ TrackerFrame

InitTracker ==
    /\ mouse \in MousePoints
    /\ startPos = NoPoint
    /\ keyDown = FALSE
    /\ decisionTimer = FALSE
    /\ hTracking = FALSE
    /\ vTracking = FALSE
    /\ startsThisPress = 0
    /\ earlyRelease = FALSE
    /\ trackerLast = "init"

NextTracker ==
    \/ TrackerKeyPress
    \/ StartAfterPickingSlider
    \/ TrackerKeyRelease
    \/ \E p \in MousePoints : MoveMouse(p)

(***************************************************************************)
(* Press/release adapter driving a ComplexActionInterface.  The host       *)
(* delivers a press event at key-down and again on every auto-repeat, and  *)
(* a release event at key-up; time is read synchronously at each event.    *)
(***************************************************************************)
MaxTime == 6         \* the clock stops advancing here
MaxThreshold == 4    \* largest short_vs_long_press_time tried

\* mutant: a release exactly at the threshold counts as short
ClassifyInclusive(elapsed, threshold) ==
    IF elapsed <= threshold THEN "on_short_key_release"
    ELSE "on_long_key_release"

\* elapsed < short_vs_long_press_time -> short, else -> long
Classify(elapsed, threshold) ==
    IF elapsed < threshold THEN "on_short_key_release"
    ELSE "on_long_key_release"

\* the callbacks of one key-up, in call order
ReleaseCallbacks(elapsed, threshold) ==
    <<Classify(elapsed, threshold), "on_every_key_release">>

\* mutant: every press event is acted on, auto-repeats included
PressAcceptedAlways(released) == TRUE

\* a press event is acted on only after a release
PressAccepted(released) == released

\* a release event is acted on only after an accepted press
ReleaseAccepted(released) == ~released

AdapterFrame == UNCHANGED <<pieVars, trackerVars, configVars, pickerVars,
        undoVars,
        presetVars,
        nodeVars,
        gridVars,
        labelVars>>

\* the adapter's handler of a press event
OnPressEvent(log) ==
    IF PressAccepted(keyReleased)
    THEN /\ keyReleased' = FALSE
         /\ lastPressTime' = now
         /\ callLog' = Append(log, "on_key_press")
    ELSE /\ callLog' = log
         /\ UNCHANGED <<keyReleased, lastPressTime>>

\* the adapter's handler of a release event
OnReleaseEvent ==
    IF ReleaseAccepted(keyReleased)
    THEN /\ keyReleased' = TRUE
         /\ callLog' = callLog
                \o ReleaseCallbacks(now - lastPressTime, shortVsLongPressTime)
         /\ UNCHANGED lastPressTime
    ELSE UNCHANGED <<keyReleased, lastPressTime, callLog>>

PhysicalKeyDown ==
    /\ ~physDown
    /\ physDown' = TRUE
    /\ OnPressEvent(<<>>)
    /\ downAt' = now
    /\ UNCHANGED <<now, shortVsLongPressTime>>
    /\ AdapterFrame

AutoRepeat ==
    /\ physDown
    /\ OnPressEvent(callLog)
    /\ UNCHANGED <<physDown, now, shortVsLongPressTime, downAt>>
    /\ AdapterFrame

PhysicalKeyUp ==
    /\ physDown
    /\ physDown' = FALSE
    /\ OnReleaseEvent
    /\ UNCHANGED <<now, shortVsLongPressTime, downAt>>
    /\ AdapterFrame

\* a release event whose press the adapter never saw
StrayRelease ==
    /\ ~physDown
    /\ OnReleaseEvent
    /\ UNCHANGED <<physDown, now, shortVsLongPressTime, downAt>>
    /\ AdapterFrame

TimePasses ==
    /\ now < MaxTime
    /\ now' = now + 1
    /\ UNCHANGED <<physDown, keyReleased, lastPressTime, shortVsLongPressTime,
                   callLog, downAt>>
    /\ AdapterFrame

InitAdapter ==
    /\ physDown = FALSE
    /\ keyReleased = TRUE
    /\ now = 0
    /\ lastPressTime = 0
    /\ shortVsLongPressTime \in 0 .. MaxThreshold
    /\ callLog = <<>>
    /\ downAt = 0

NextAdapter ==
    \/ PhysicalKeyDown
    \/ AutoRepeat
    \/ PhysicalKeyUp
    \/ StrayRelease
    \/ TimePasses

(***************************************************************************)
(* Configuration fields: FieldBase over the host's string settings store.  *)
(* A Python value is <<type, n>>: an int n, a bool (n in {0, 1}) or the    *)
(* n-th string of StrTable.                                                *)
(***************************************************************************)
MaxCallbacks == 2                 \* callbacks registered in all
NotStored == "<not stored>"       \* Krita.read_setting returns None
Fields == {"FPS_LIMIT", "TRACKER_DEADZONE"}
FieldOrder == <<"TRACKER_DEADZONE", "FPS_LIMIT">>   \* order in Config.__dict__
Default(f) == IF f = "FPS_LIMIT" THEN <<"int", 60>> ELSE <<"int", 0>>
CallbackIds == {"a", "b"}

IntValues == {0, 1, 16, 60, 3000}
StrTable == <<"abc">>
PyValues ==
    ({"int"} \X IntValues) \cup ({"bool"} \X {0, 1})
        \cup ({"str"} \X (1 .. Len(StrTable)))
Raws == {"0", "1", "01", "16", "60", "3000", "True", "False", "abc"}

TypeOf(v) == v[1]

\* isinstance(value, cls): bool is a subclass of int
IsInstance(v, cls) == TypeOf(v) = cls \/ (TypeOf(v) = "bool" /\ cls = "int")

\* Python ==: int and bool compare as numbers, a str equals only a str
PyEq(a, b) ==
    IF TypeOf(a) = "str" \/ TypeOf(b) = "str" THEN a = b ELSE a[2] = b[2]

\* str(value)
IntToStr(n) ==
    CASE n = 0 -> "0" [] n = 1 -> "1" [] n = 16 -> "16" [] n = 60 -> "60"
      [] n = 3000 -> "3000"
PyStr(v) ==
    CASE TypeOf(v) = "int" -> IntToStr(v[2])
      [] TypeOf(v) = "bool" -> (IF v[2] = 1 THEN "True" ELSE "False")
      [] TypeOf(v) = "str" -> StrTable[v[2]]

\* FieldBase._to_string of a non-list field: the parser's str(value)
FieldToString(v) == PyStr(v)

\* int(raw); ParseError stands for ValueError
ParseError == <<"error", 0>>
ParseInt(raw) ==
    CASE raw = "0" -> <<"int", 0>>
      [] raw \in {"1", "01"} -> <<"int", 1>>
      [] raw = "16" -> <<"int", 16>>
      [] raw = "60" -> <<"int", 60>>
      [] raw = "3000" -> <<"int", 3000>>
      [] OTHER -> ParseError

\* FieldBase.read of a non-list field: the default when nothing is stored or
\* the stored string does not parse
Read(st, f) ==
    IF st[f] = NotStored THEN Default(f)
    ELSE IF ParseInt(st[f]) = ParseError THEN Default(f)
    ELSE ParseInt(st[f])

\* mutant: the type check compares the exact types
TypeAcceptedExact(f, v) == TypeOf(v) = TypeOf(Default(f))
\* mutant: the type check is missing
TypeAcceptedAny(f, v) == TRUE

\* FieldBase.write: the isinstance check
TypeAccepted(f, v) == IsInstance(v, TypeOf(Default(f)))

\* mutant: only the stored-value test is left, and it compares raw strings
IsWriteRedundantRaw(st, f, v) == st[f] = FieldToString(v)

\* FieldBase._is_write_redundant
IsWriteRedundant(st, f, v) ==
    \/ PyEq(Read(st, f), v)
    \/ st[f] = NotStored /\ PyEq(v, Default(f))

\* FieldBase.write after the type check: the store and the events it leaves
StoreAfterWrite(st, f, v) ==
    IF IsWriteRedundant(st, f, v) THEN st
    ELSE [st EXCEPT ![f] = FieldToString(v)]
\* mutant: the callbacks run before the store is written, last one first
EventsOfWriteReversed(st, cbs, f, v) ==
    IF IsWriteRedundant(st, f, v) THEN <<>>
    ELSE [i \in 1 .. Len(cbs[f]) |-> <<f, cbs[f][Len(cbs[f]) + 1 - i]>>]
         \o <<<<f, "write_setting">>>>

EventsOfWrite(st, cbs, f, v) ==
    IF IsWriteRedundant(st, f, v) THEN <<>>
    ELSE <<<<f, "write_setting">>>> \o [i \in 1 .. Len(cbs[f]) |-> <<f, cbs[f][i]>>]

\* mutant: the sweep stops after the first field
SweepOrderFirstOnly == <<FieldOrder[1]>>

\* Config.reset_defaults: the fields the sweep visits, in order
SweepOrder == FieldOrder

\* Config.reset_defaults from field k of the sweep on
RECURSIVE StoreAfterReset(_, _)
StoreAfterReset(st, k) ==
    IF k > Len(SweepOrder) THEN st
    ELSE StoreAfterReset(
            StoreAfterWrite(st, SweepOrder[k], Default(SweepOrder[k])), k + 1)
RECURSIVE EventsOfReset(_, _, _)
EventsOfReset(st, cbs, k) ==
    IF k > Len(SweepOrder) THEN <<>>
    ELSE EventsOfWrite(st, cbs, SweepOrder[k], Default(SweepOrder[k]))
         \o EventsOfReset(
                StoreAfterWrite(st, SweepOrder[k], Default(SweepOrder[k])),
                cbs, k + 1)

\* Python round(1000 / fps) for fps > 0: to the nearest integer, a tie to
\* the even one
RoundedInterval(fps) ==
    LET q == 1000 \div fps
        r == 1000 % fps
    IN  IF 2 * r < fps THEN q
        ELSE IF 2 * r > fps THEN q + 1
        ELSE IF q % 2 = 0 THEN q ELSE q + 1

\* Config.get_sleep_time
SleepTime(fps) == IF fps # 0 THEN RoundedInterval(fps) ELSE 1

ConfigFrame == UNCHANGED <<pieVars, trackerVars, adapterVars, pickerVars,
        undoVars,
        presetVars,
        nodeVars,
        gridVars,
        labelVars>>

\* history values of an operation that takes no argument, returns nothing
NoArg == <<"", <<"int", 0>>>>
NoResult == -1
RegisteredCallbacks ==
    Len(callbacks["FPS_LIMIT"]) + Len(callbacks["TRACKER_DEADZONE"])

RegisterCallback(f, c) ==
    /\ RegisteredCallbacks < MaxCallbacks
    /\ callbacks' = [callbacks EXCEPT ![f] = Append(@, c)]
    /\ cfgLast' = "register"
    /\ raised' = FALSE
    /\ opLog' = <<>>
    /\ cfgArg' = NoArg
    /\ sleepTime' = NoResult
    /\ UNCHANGED store
    /\ ConfigFrame

FieldWrite(f, v) ==
    /\ cfgLast' = "write"
    /\ cfgArg' = <<f, v>>
    /\ IF ~TypeAccepted(f, v)
       THEN /\ raised' = TRUE
            /\ opLog' = <<>>
            /\ UNCHANGED store
       ELSE /\ raised' = FALSE
            /\ store' = StoreAfterWrite(store, f, v)
            /\ opLog' = EventsOfWrite(store, callbacks, f, v)
    /\ sleepTime' = NoResult
    /\ UNCHANGED callbacks
    /\ ConfigFrame

ResetDefaults ==
    /\ cfgLast' = "reset"
    /\ raised' = FALSE
    /\ store' = StoreAfterReset(store, 1)
    /\ opLog' = EventsOfReset(store, callbacks, 1)
    /\ cfgArg' = NoArg
    /\ sleepTime' = NoResult
    /\ UNCHANGED callbacks
    /\ ConfigFrame

GetSleepTime ==
    /\ cfgLast' = "sleep"
    /\ raised' = FALSE
    /\ opLog' = <<>>
    /\ sleepTime' = SleepTime(Read(store, "FPS_LIMIT")[2])
    /\ cfgArg' = NoArg
    /\ UNCHANGED <<store, callbacks>>
    /\ ConfigFrame

\* the settings file holds whatever earlier sessions and the user left in it
InitConfig ==
    /\ store \in [Fields -> Raws \cup {NotStored}]
    /\ callbacks = [f \in Fields |-> <<>>]
    /\ cfgLast = "init"
    /\ cfgArg = NoArg
    /\ raised = FALSE
    /\ opLog = <<>>
    /\ sleepTime = NoResult

NextConfig ==
    \/ \E f \in Fields, c \in CallbackIds : RegisterCallback(f, c)
    \/ \E f \in Fields, v \in PyValues : FieldWrite(f, v)
    \/ ResetDefaults
    \/ GetSleepTime

(***************************************************************************)
(* SingleAxisTracker (axis_trackers.py) and LayerPicker (layer_picker.py). *)
(* The key's press and release callbacks arrive alternately.  A document   *)
(* is a fixed list of nodes; which document is active, which nodes are     *)
(* visible and which node is current change at any time.                   *)
(***************************************************************************)
NumNodes == 3        \* nodes over all documents
NumDocs == 2         \* open documents

Nodes == 1 .. NumNodes
Docs == 1 .. NumDocs
Templates == {"SingleAxisTracker", "LayerPicker"}
Strategies == {"ALL", "VISIBLE"}

\* the document a node belongs to, and Document.all_nodes() in document order
DocOf(n) == ((n - 1) % NumDocs) + 1
AllNodes(doc) ==
    SelectSeq([n \in 1 .. NumNodes |-> n], LAMBDA n : DocOf(n) = doc)

\* mutant: only the visible nodes are picked
PickVisibleOnly(doc, vis, cur) ==
    SelectSeq(AllNodes(doc), LAMBDA n : vis[n])

\* PickStrategy.ALL and PickStrategy.VISIBLE
PickAll(doc, vis, cur) == AllNodes(doc)
PickVisible(doc, vis, cur) ==
    SelectSeq(AllNodes(doc), LAMBDA n : vis[n] \/ n = cur)
Pick(strategy, doc, vis, cur) ==
    IF strategy = "ALL" THEN PickAll(doc, vis, cur)
    ELSE PickVisible(doc, vis, cur)

\* LayerPicker.__init__: values_to_cycle=[0]
InitialValues == <<0>>

\* mutant: the release leaves the handler as it was
HandlerAfterReleaseKept(tracking) == tracking

\* SliderHandler.start() and stop() as the tracker's callbacks call them
HandlerAfterPress(tracking) == TRUE
HandlerAfterRelease(tracking) == FALSE

\* the calls of on_key_press and on_every_key_release, in order
PressCalls == <<"ComplexAction.on_key_press", "SliderHandler.start">>
ReleaseCalls == <<"ComplexAction.on_every_key_release", "SliderHandler.stop">>

PickerFrame == UNCHANGED <<pieVars, trackerVars, adapterVars, configVars,
        undoVars,
        presetVars,
        nodeVars,
        gridVars,
        labelVars>>

SingleAxisKeyPress ==
    /\ template = "SingleAxisTracker"
    /\ ~pickerKeyDown
    /\ pickerKeyDown' = TRUE
    /\ handlerTracking' = HandlerAfterPress(handlerTracking)
    /\ pickerLog' = PressCalls
    /\ pickerLast' = "press"
    /\ oldValues' = valuesToCycle
    /\ UNCHANGED <<template, pickStrategy, activeDocument, nodeVisible,
                   currentNode, valuesToCycle>>
    /\ PickerFrame

LayerPickerKeyPress ==
    /\ template = "LayerPicker"
    /\ ~pickerKeyDown
    /\ pickerKeyDown' = TRUE
    /\ valuesToCycle' = Pick(pickStrategy, activeDocument, nodeVisible,
                             currentNode[activeDocument])
    /\ handlerTracking' = HandlerAfterPress(handlerTracking)
    /\ pickerLog' = <<"Slider.set_values_to_cycle">> \o PressCalls
    /\ pickerLast' = "press"
    /\ oldValues' = valuesToCycle
    /\ UNCHANGED <<template, pickStrategy, activeDocument, nodeVisible,
                   currentNode>>
    /\ PickerFrame

SingleAxisKeyRelease ==
    /\ pickerKeyDown
    /\ pickerKeyDown' = FALSE
    /\ handlerTracking' = HandlerAfterRelease(handlerTracking)
    /\ pickerLog' = ReleaseCalls
    /\ pickerLast' = "release"
    /\ UNCHANGED <<template, pickStrategy, activeDocument, nodeVisible,
                   currentNode, valuesToCycle, oldValues>>
    /\ PickerFrame

\* the user shows or hides a node
ToggleVisible(n) ==
    /\ nodeVisible' = [nodeVisible EXCEPT ![n] = ~@]
    /\ pickerLast' = "document"
    /\ pickerLog' = <<>>
    /\ UNCHANGED <<template, pickStrategy, activeDocument, currentNode,
                   valuesToCycle, handlerTracking, pickerKeyDown, oldValues>>
    /\ PickerFrame

\* another node of its document becomes the current one
SelectNode(n) ==
    /\ currentNode[DocOf(n)] # n
    /\ currentNode' = [currentNode EXCEPT ![DocOf(n)] = n]
    /\ pickerLast' = "document"
    /\ pickerLog' = <<>>
    /\ UNCHANGED <<template, pickStrategy, activeDocument, nodeVisible,
                   valuesToCycle, handlerTracking, pickerKeyDown, oldValues>>
    /\ PickerFrame

\* the user switches to another document
SwitchDocument(d) ==
    /\ d # activeDocument
    /\ activeDocument' = d
    /\ pickerLast' = "document"
    /\ pickerLog' = <<>>
    /\ UNCHANGED <<template, pickStrategy, nodeVisible, currentNode,
                   valuesToCycle, handlerTracking, pickerKeyDown, oldValues>>
    /\ PickerFrame

InitPicker ==
    /\ template \in Templates
    /\ pickStrategy \in Strategies
    /\ activeDocument = 1
    /\ nodeVisible = [n \in Nodes |-> TRUE]
    /\ currentNode = [d \in Docs |-> d]
    /\ valuesToCycle = InitialValues
    /\ handlerTracking = FALSE
    /\ pickerKeyDown = FALSE
    /\ pickerLast = "init"
    /\ pickerLog = <<>>
    /\ oldValues = InitialValues

NextPicker ==
    \/ SingleAxisKeyPress
    \/ LayerPickerKeyPress
    \/ SingleAxisKeyRelease
    \/ \E n \in Nodes : ToggleVisible(n)
    \/ \E n \in Nodes : SelectNode(n)
    \/ \E d \in Docs : SwitchDocument(d)

(***************************************************************************)
(* UndoController (core_controllers.py).  set_value takes a float; the     *)
(* arguments tried are the multiples of 0.5, written as twice their value. *)
(***************************************************************************)
MaxUndoValue == 2    \* arguments range over -MaxUndoValue-0.5 .. MaxUndoValue+0.5
MaxUndoActions == 6  \* host actions triggered before the controller rests

UndoArgs == -(2 * MaxUndoValue + 1) .. (2 * MaxUndoValue + 1)

\* mutant: halves are rounded up
RoundHalfUp(v2) == (v2 + 1) \div 2

\* round(value) of Python 3: to the nearest integer, halves to the even one
Round(v2) ==
    IF v2 % 2 = 0 THEN v2 \div 2
    ELSE LET low == (v2 - 1) \div 2
         IN  IF low % 2 = 0 THEN low ELSE low + 1

\* UndoController.set_value: the host action triggered and the move made
UndoAction(value, state) ==
    IF value = state THEN "none"
    ELSE IF value > state THEN "edit_redo"
    ELSE "edit_undo"
UndoStateAfter(value, state) ==
    IF value = state THEN state
    ELSE IF value > state THEN state + 1
    ELSE state - 1

\* UndoController.get_value
UndoGetValue == undoState

UndoFrame ==
    UNCHANGED <<pieVars, trackerVars, adapterVars, configVars, pickerVars,
                presetVars,
        nodeVars,
        gridVars,
        labelVars>>

UndoSetValue(v2) ==
    LET value == Round(v2)
        action == UndoAction(value, undoState)
    IN  /\ action # "none" => redos + undos < MaxUndoActions
        /\ undoState' = UndoStateAfter(value, undoState)
        /\ redos' = IF action = "edit_redo" THEN redos + 1 ELSE redos
        /\ undos' = IF action = "edit_undo" THEN undos + 1 ELSE undos
        /\ undoArg' = v2
        /\ undoTriggered' = action
        /\ UndoFrame

InitUndo ==
    /\ undoState = 0
    /\ redos = 0
    /\ undos = 0
    /\ undoArg = 0
    /\ undoTriggered = "init"

NextUndo == \E v2 \in UndoArgs : UndoSetValue(v2)

UndoParked == InitUndo

(***************************************************************************)
(* PresetController.get_label (view_controllers.py).  Presets are named    *)
(* 1 .. NumPresets; the host's catalog holds some of them and changes as   *)
(* presets are installed and removed.                                      *)
(***************************************************************************)
NumPresets == 4      \* preset names in use

PresetNames == 1 .. NumPresets
NoPixmap == 0        \* get_label returned None
Pixmap(name) == name \* QPixmap.fromImage(preset.image())

\* mutant: the KeyError of the lookup is not caught
GetLabelUncaught(catalog, value) ==
    IF value \in catalog THEN <<FALSE, Pixmap(value)>> ELSE <<TRUE, NoPixmap>>

\* PresetController.get_label: <<an exception left the call, the result>>
GetLabel(catalog, value) ==
    IF value \in catalog THEN <<FALSE, Pixmap(value)>> ELSE <<FALSE, NoPixmap>>

PresetFrame ==
    UNCHANGED <<pieVars, trackerVars, adapterVars, configVars, pickerVars,
                undoVars,
        nodeVars,
        gridVars,
        labelVars>>

PresetGetLabel(value) ==
    /\ labelArg' = value
    /\ labelRaised' = GetLabel(presetCatalog, value)[1]
    /\ labelResult' = GetLabel(presetCatalog, value)[2]
    /\ presetLast' = "get_label"
    /\ UNCHANGED presetCatalog
    /\ PresetFrame

\* the user installs or removes a preset
InstallPreset(name) ==
    /\ name \notin presetCatalog
    /\ presetCatalog' = presetCatalog \cup {name}
    /\ presetLast' = "install"
    /\ UNCHANGED <<labelArg, labelResult, labelRaised>>
    /\ PresetFrame

RemovePreset(name) ==
    /\ name \in presetCatalog
    /\ presetCatalog' = presetCatalog \ {name}
    /\ presetLast' = "remove"
    /\ UNCHANGED <<labelArg, labelResult, labelRaised>>
    /\ PresetFrame

InitPreset ==
    /\ presetCatalog = {}
    /\ presetLast = "init"
    /\ labelArg = NoPixmap
    /\ labelResult = NoPixmap
    /\ labelRaised = FALSE

NextPreset ==
    \/ \E name \in PresetNames : PresetGetLabel(name)
    \/ \E name \in PresetNames : InstallPreset(name)
    \/ \E name \in PresetNames : RemovePreset(name)

PresetParked == InitPreset

(***************************************************************************)
(* LayerOpacityController, LayerBlendingModeController and                 *)
(* LayerVisibilityController (node_controllers.py).  One controller is in   *)
(* use, named by the node property it handles.  The host's nodes change    *)
(* under it: the user picks another node or edits a property.              *)
(***************************************************************************)
NumLayers == 2       \* nodes of the document

LayerIds == 1 .. NumLayers
NoNode == 0          \* the controller has no active_node attribute yet
Controllers == {"opacity", "blending_mode", "visible"}
ValuesOf(kind) ==
    IF kind = "opacity" THEN {0, 100}
    ELSE IF kind = "blending_mode" THEN {"NORMAL", "MULTIPLY"}
    ELSE BOOLEAN
LayerStates ==
    [opacity : ValuesOf("opacity"), blending_mode : ValuesOf("blending_mode"),
     visible : ValuesOf("visible")]

\* mutant: set_value writes whatever the node holds
SetValueWritesAlways(current, value) == TRUE

\* set_value: the guard of the write, and the host calls it makes
SetValueWrites(current, value) == current # value
SetValueCalls(current, value) ==
    IF SetValueWrites(current, value)
    THEN <<"Node.property = value", "Document.refresh">>
    ELSE <<>>

NodeFrame ==
    UNCHANGED <<pieVars, trackerVars, adapterVars, configVars, pickerVars,
                undoVars, presetVars,
        gridVars,
        labelVars>>

\* NodeBasedController.refresh
ControllerRefresh ==
    /\ capturedNode' = hostActiveNode
    /\ ctlLast' = "refresh"
    /\ ctlArg' = <<"", FALSE>>
    /\ ctlLog' = <<>>
    /\ ctlRaised' = FALSE
    /\ UNCHANGED <<layers, hostActiveNode, controller>>
    /\ NodeFrame

ControllerSetValue(value) ==
    /\ ctlLast' = "set_value"
    /\ ctlArg' = <<controller, value>>
    /\ IF capturedNode = NoNode
       THEN /\ ctlRaised' = TRUE
            /\ ctlLog' = <<>>
            /\ UNCHANGED layers
       ELSE LET current == layers[capturedNode][controller]
            IN  /\ ctlRaised' = FALSE
                /\ ctlLog' = SetValueCalls(current, value)
                /\ layers' =
                       IF SetValueWrites(current, value)
                       THEN [layers EXCEPT ![capturedNode][controller] = value]
                       ELSE layers
    /\ UNCHANGED <<hostActiveNode, controller, capturedNode>>
    /\ NodeFrame

\* the user makes another node the active one
HostSelectNode(node) ==
    /\ node # hostActiveNode
    /\ hostActiveNode' = node
    /\ ctlLast' = "host"
    /\ ctlArg' = <<"", FALSE>>
    /\ ctlLog' = <<>>
    /\ ctlRaised' = FALSE
    /\ UNCHANGED <<layers, controller, capturedNode>>
    /\ NodeFrame

\* the user edits a node's property in the host
HostEditNode(node, kind, value) ==
    /\ layers[node][kind] # value
    /\ layers' = [layers EXCEPT ![node][kind] = value]
    /\ ctlLast' = "host"
    /\ ctlArg' = <<"", FALSE>>
    /\ ctlLog' = <<>>
    /\ ctlRaised' = FALSE
    /\ UNCHANGED <<hostActiveNode, controller, capturedNode>>
    /\ NodeFrame

InitNode ==
    /\ layers = [n \in LayerIds |->
                    [opacity |-> 100, blending_mode |-> "NORMAL",
                     visible |-> TRUE]]
    /\ hostActiveNode = 1
    /\ controller \in Controllers
    /\ capturedNode = NoNode
    /\ ctlLast = "init"
    /\ ctlArg = <<"", FALSE>>
    /\ ctlLog = <<>>
    /\ ctlRaised = FALSE

NextNode ==
    \/ ControllerRefresh
    \/ \E value \in ValuesOf(controller) : ControllerSetValue(value)
    \/ \E node \in LayerIds : HostSelectNode(node)
    \/ \E node \in LayerIds : \E kind \in Controllers :
           \E value \in ValuesOf(kind) : HostEditNode(node, kind, value)

NodeParked == InitNode /\ controller = "opacity"

(***************************************************************************)
(* OffsetGridLayout (settings_gui/scroll_area.py): a list of widgets laid  *)
(* out on a QGridLayout, every widget on a block of 2x2 cells.             *)
(***************************************************************************)
NumGridWidgets == 4  \* widgets that can be handed to the layout
MaxColumns == 3      \* largest max_columns tried
MaxExtend == 2       \* longest list passed to extend()

GridWidgets == 1 .. NumGridWidgets
NoWidget == 0        \* no single widget was passed
InsertIndexes == -2 .. NumGridWidgets
ExtendLists ==
    UNION {[1 .. n -> GridWidgets] : n \in 0 .. MaxExtend}
Held(seq) == {seq[i] : i \in 1 .. Len(seq)}

\* list.insert(index, widget): a negative index counts from the end, an
\* index outside the list is clamped
ListInsert(seq, index, w) ==
    LET k == IF index < 0 THEN Max(index + Len(seq), 0)
             ELSE Min(index, Len(seq))
    IN  SubSeq(seq, 1, k) \o <<w>> \o SubSeq(seq, k + 1, Len(seq))

\* mutant: the widget is inserted even when it is already held
InternalInsertAlways(seq, index, w) == ListInsert(seq, index, w)

\* OffsetGridLayout._internal_insert
InternalInsert(seq, index, w) ==
    IF w \in Held(seq) THEN seq ELSE ListInsert(seq, index, w)

\* OffsetGridLayout.extend: the loop over the given widgets, from the k-th on
RECURSIVE ExtendFrom(_, _, _)
ExtendFrom(seq, ws, k) ==
    IF k > Len(ws) THEN seq
    ELSE ExtendFrom(InternalInsert(seq, Len(seq), ws[k]), ws, k + 1)

\* the _internal_insert calls of an operation that found the widget held
RECURSIVE SkippedFrom(_, _, _)
SkippedFrom(seq, ws, k) ==
    IF k > Len(ws) THEN 0
    ELSE (IF ws[k] \in Held(seq) THEN 1 ELSE 0)
         + SkippedFrom(InternalInsert(seq, Len(seq), ws[k]), ws, k + 1)

\* mutant: the shorter rows start one grid row below the longer ones
GetPositionOneRowDown(index, columns) ==
    LET itemsInGroup == 2 * columns - 1
        group == index \div itemsInGroup
        item == index % itemsInGroup
    IN  IF item < columns THEN <<group * 4, item * 2>>
        ELSE <<group * 4 + 1, (item - columns) * 2 + 1>>

\* OffsetGridLayout._get_position: <<gridrow, gridcol>> of an index
GetPosition(index, columns) ==
    LET itemsInGroup == 2 * columns - 1
        group == index \div itemsInGroup
        item == index % itemsInGroup
    IN  IF item < columns THEN <<group * 4, item * 2>>
        ELSE <<group * 4 + 2, (item - columns) * 2 + 1>>

\* OffsetGridLayout._refresh: every held widget is put at its position
Refresh(seq, columns) ==
    [i \in 1 .. Len(seq) |-> GetPosition(i - 1, columns)]

GridFrame ==
    UNCHANGED <<pieVars, trackerVars, adapterVars, configVars, pickerVars,
                undoVars, presetVars, nodeVars,
        labelVars>>

GridInsert(index, w) ==
    /\ widgets' = InternalInsert(widgets, index, w)
    /\ placed' = Refresh(widgets', maxColumns)
    /\ gridLast' = "insert"
    /\ gridArg' = w
    /\ gridSkipped' = IF w \in Held(widgets) THEN 1 ELSE 0
    /\ UNCHANGED maxColumns
    /\ GridFrame

GridAppend(w) ==
    /\ widgets' = InternalInsert(widgets, Len(widgets), w)
    /\ placed' = Refresh(widgets', maxColumns)
    /\ gridLast' = "append"
    /\ gridArg' = w
    /\ gridSkipped' = IF w \in Held(widgets) THEN 1 ELSE 0
    /\ UNCHANGED maxColumns
    /\ GridFrame

GridExtend(ws) ==
    /\ widgets' = ExtendFrom(widgets, ws, 1)
    /\ placed' = Refresh(widgets', maxColumns)
    /\ gridLast' = "extend"
    /\ gridArg' = NoWidget
    /\ gridSkipped' = SkippedFrom(widgets, ws, 1)
    /\ UNCHANGED maxColumns
    /\ GridFrame

InitGrid ==
    /\ maxColumns \in 1 .. MaxColumns
    /\ widgets = <<>>
    /\ placed = <<>>
    /\ gridLast = "init"
    /\ gridArg = NoWidget
    /\ gridSkipped = 0

NextGrid ==
    \/ \E index \in InsertIndexes, w \in GridWidgets : GridInsert(index, w)
    \/ \E w \in GridWidgets : GridAppend(w)
    \/ \E ws \in ExtendLists : GridExtend(ws)

GridParked == InitGrid /\ maxColumns = 1

(***************************************************************************)
(* LabelWidget (label_widget.py): the enabled and draggable properties and *)
(* the mouse events.                                                       *)
(***************************************************************************)
MaxDrags == 2        \* drag loops counted

Buttons == {"none", "left", "right", "left+right"}

\* draggable.setter: the cursor shape that goes with the flag
CursorFor(value) == IF value THEN "ArrowCursor" ELSE "CrossCursor"

\* enabled.setter: what it does to the draggable flag
DraggableAfterEnabled(value, was) == IF ~value THEN FALSE ELSE was

\* mousePressEvent: the press starts a drag loop
StartsDrag(buttons, canDrag) == ~(buttons # "left" \/ ~canDrag)

LabelFrame ==
    UNCHANGED <<pieVars, trackerVars, adapterVars, configVars, pickerVars,
                undoVars, presetVars, nodeVars, gridVars>>

SetDraggable(value) ==
    /\ lwDraggable' = value
    /\ lwCursor' = CursorFor(value)
    /\ lwLast' = "draggable"
    /\ UNCHANGED <<lwEnabled, lwHovered, lwDrags, lwButtons>>
    /\ LabelFrame

SetEnabled(value) ==
    /\ lwEnabled' = value
    /\ lwDraggable' = DraggableAfterEnabled(value, lwDraggable)
    /\ lwCursor' = IF ~value THEN CursorFor(FALSE) ELSE lwCursor
    /\ lwLast' = "enabled"
    /\ UNCHANGED <<lwHovered, lwDrags, lwButtons>>
    /\ LabelFrame

MousePressEvent(buttons) ==
    /\ lwDrags < MaxDrags
    /\ lwButtons' = buttons
    /\ lwDrags' = IF StartsDrag(buttons, lwDraggable) THEN lwDrags + 1
                  ELSE lwDrags
    /\ lwLast' = "press"
    /\ UNCHANGED <<lwEnabled, lwDraggable, lwCursor, lwHovered>>
    /\ LabelFrame

EnterEvent ==
    /\ ~lwHovered
    /\ lwHovered' = TRUE
    /\ lwLast' = "enter"
    /\ UNCHANGED <<lwEnabled, lwDraggable, lwCursor, lwDrags, lwButtons>>
    /\ LabelFrame

LeaveEvent ==
    /\ lwHovered
    /\ lwHovered' = FALSE
    /\ lwLast' = "leave"
    /\ UNCHANGED <<lwEnabled, lwDraggable, lwCursor, lwDrags, lwButtons>>
    /\ LabelFrame

InitLabel ==
    /\ lwEnabled = TRUE
    /\ lwDraggable = TRUE
    /\ lwCursor = CursorFor(TRUE)
    /\ lwHovered = FALSE
    /\ lwDrags = 0
    /\ lwLast = "init"
    /\ lwButtons = "none"

NextLabel ==
    \/ \E value \in BOOLEAN : SetDraggable(value)
    \/ \E value \in BOOLEAN : SetEnabled(value)
    \/ \E buttons \in Buttons : MousePressEvent(buttons)
    \/ EnterEvent
    \/ LeaveEvent

LabelParked == InitLabel

(***************************************************************************)
(* Specifications.  A component that is not the subject of a specification *)
(* is parked in one fixed initial state and never moves.                   *)
(***************************************************************************)
PieParked == InitPie /\ cursor = <<0, 0>> /\ deadzone = 0
TrackerParked == InitTracker /\ mouse = <<0, 0>>
AdapterParked == InitAdapter /\ shortVsLongPressTime = 0
ConfigParked == InitConfig /\ store = [f \in Fields |-> NotStored]
PickerParked ==
    InitPicker /\ template = "SingleAxisTracker" /\ pickStrategy = "ALL"

Init == InitPie /\ InitTracker /\ InitAdapter /\ InitConfig /\ InitPicker
        /\ InitLabel
        /\ InitGrid
        /\ InitNode
        /\ InitPreset
        /\ InitUndo
Next == NextPie \/ NextTracker \/ NextAdapter \/ NextConfig \/ NextPicker
        \/ NextLabel
        \/ NextGrid
        \/ NextNode
        \/ NextPreset
        \/ NextUndo
Spec == Init /\ [][Next]_vars

InitPieOnly ==
    InitPie /\ TrackerParked /\ AdapterParked /\ ConfigParked /\ PickerParked /\ UndoParked /\ PresetParked /\ NodeParked /\ GridParked /\ LabelParked
InitTrackerOnly ==
    PieParked /\ InitTracker /\ AdapterParked /\ ConfigParked /\ PickerParked /\ UndoParked /\ PresetParked /\ NodeParked /\ GridParked /\ LabelParked
InitAdapterOnly ==
    PieParked /\ TrackerParked /\ InitAdapter /\ ConfigParked /\ PickerParked /\ UndoParked /\ PresetParked /\ NodeParked /\ GridParked /\ LabelParked
InitConfigOnly ==
    PieParked /\ TrackerParked /\ AdapterParked /\ InitConfig /\ PickerParked /\ UndoParked /\ PresetParked /\ NodeParked /\ GridParked /\ LabelParked
InitPickerOnly ==
    PieParked /\ TrackerParked /\ AdapterParked /\ ConfigParked /\ InitPicker /\ UndoParked /\ PresetParked /\ NodeParked /\ GridParked /\ LabelParked
InitUndoOnly ==
    PieParked /\ TrackerParked /\ AdapterParked /\ ConfigParked
    /\ PickerParked /\ InitUndo /\ PresetParked /\ NodeParked /\ GridParked /\ LabelParked
InitPresetOnly ==
    PieParked /\ TrackerParked /\ AdapterParked /\ ConfigParked
    /\ PickerParked /\ UndoParked /\ InitPreset /\ NodeParked /\ GridParked /\ LabelParked
InitNodeOnly ==
    PieParked /\ TrackerParked /\ AdapterParked /\ ConfigParked
    /\ PickerParked /\ UndoParked /\ PresetParked /\ InitNode /\ GridParked /\ LabelParked
InitGridOnly ==
    PieParked /\ TrackerParked /\ AdapterParked /\ ConfigParked
    /\ PickerParked /\ UndoParked /\ PresetParked /\ NodeParked /\ InitGrid /\ LabelParked
InitLabelOnly ==
    PieParked /\ TrackerParked /\ AdapterParked /\ ConfigParked
    /\ PickerParked /\ UndoParked /\ PresetParked /\ NodeParked
    /\ GridParked /\ InitLabel

SpecPie == InitPieOnly /\ [][NextPie]_vars
SpecTracker == InitTrackerOnly /\ [][NextTracker]_vars
SpecAdapter == InitAdapterOnly /\ [][NextAdapter]_vars
SpecConfig == InitConfigOnly /\ [][NextConfig]_vars
SpecPicker == InitPickerOnly /\ [][NextPicker]_vars
SpecUndo == InitUndoOnly /\ [][NextUndo]_vars
SpecPreset == InitPresetOnly /\ [][NextPreset]_vars
SpecNode == InitNodeOnly /\ [][NextNode]_vars
SpecGrid == InitGridOnly /\ [][NextGrid]_vars
SpecLabel == InitLabelOnly /\ [][NextLabel]_vars

\* the pie menu and the tracker, one at a time: either component moves only
\* while the other one is still in its initial state
InitStops == (InitPieOnly \/ InitTrackerOnly)
NextStops ==
    \/ TrackerParked /\ PieStart
    \/ \E hide \in BOOLEAN : TrackerParked /\ PieStop(hide)
    \/ TrackerParked /\ HandleCursor
    \/ TrackerParked /\ AnimatorUpdate
    \/ \E p \in Points : TrackerParked /\ MoveCursor(p)
    \/ TrackerParked /\ ExternalHide
    \/ TrackerParked /\ EnterEditMode
    \/ TrackerParked /\ LeaveEditMode
    \/ PieParked /\ TrackerKeyPress
    \/ PieParked /\ StartAfterPickingSlider
    \/ PieParked /\ TrackerKeyRelease
    \/ \E p \in MousePoints : PieParked /\ MoveMouse(p)
SpecStops == InitStops /\ [][NextStops]_vars

\* the animator's timer keeps firing while it is running
SpecPieLive == SpecPie /\ WF_vars(AnimatorUpdate)

(***************************************************************************)
(* Properties of the pie menu                                              *)
(***************************************************************************)
AtBound(l) == progress[l] \in {0, ProgressMax}

\* the inputs are quiet in a step: only a timer fired (no start(), stop(),
\* cursor movement or external hide) and the active label did not change
InputsQuiet == pieLast' \in {"update", "poll"} /\ active' = active

\* C1: animator liveness. Once the inputs have stopped changing and the
\* active label stays as it is, the animator's ticks bring every label's
\* progress to 0 or 1 and the animator stops its scheduler for good: it does
\* not tick forever.
C1_AnimatorLiveness ==
    (<>[][InputsQuiet]_vars)
        => <>[](~animTimer /\ \A l \in Labels : AtBound(l))

\* C1 witness: an animation towards an active label ran to its end and the
\* animator stopped itself.
C1_Witness ==
    /\ pieLast = "update"
    /\ ~animTimer
    /\ active \in Labels
    /\ progress[active] = ProgressMax

\* C2: whenever the animator's scheduler goes from running to stopped, every
\* label's progress equals its target: 1 for the active label, 0 for every
\* other one (all 0 when no label is active).
C2_StopOnlyAtTarget ==
    [][(animTimer /\ ~animTimer') =>
        \A l \in Labels :
            progress'[l] = IF active' = l THEN ProgressMax ELSE 0]_vars

\* C2 witness: the animator stopped after the selection moved from one label
\* to none, with every label back at 0.
C2_Witness ==
    /\ pieLast = "update"
    /\ ~animTimer
    /\ active = None
    /\ pollTimer
    /\ \A l \in Labels : progress[l] = 0

\* C3: on each animator tick the active label steps up towards 1 and every
\* other label steps down towards 0 (all down when no label is active), and
\* every label's progress is within [0,1] in every reachable state.
C3_TickDirections ==
    /\ [](\A l \in Labels : progress[l] \in 0 .. ProgressMax)
    /\ [][pieLast' = "update" =>
            \A l \in Labels :
                IF active = l
                THEN /\ progress'[l] >= progress[l]
                     /\ progress'[l] > progress[l] \/ progress[l] = ProgressMax
                ELSE /\ progress'[l] <= progress[l]
                     /\ progress'[l] < progress[l] \/ progress[l] = 0]_vars

\* C3 witness: after a tick one label is part-way up while another is
\* part-way down.
C3_Witness ==
    /\ pieLast = "update"
    /\ active \in Labels
    /\ progress[active] \in 1 .. (ProgressMax - 1)
    /\ \E l \in Labels \ {active} : progress[l] \in 1 .. (ProgressMax - 1)

\* C4: a poll that finds the widget visible and the cursor nearer to the
\* centre captured at start() than the deadzone sets the active label to
\* None, whatever the cursor's angle.
C4_DeadzoneGivesNone ==
    [][(pieLast' = "poll" /\ visible
        /\ DistanceSq(circle, cursor) < deadzone * deadzone)
       => active' = None]_vars

\* C4 witness: a poll with the cursor off-centre but inside the deadzone,
\* away from the screen origin, has cleared a label that was active.
C4_Witness ==
    /\ pieLast = "poll"
    /\ animStarted
    /\ active = None
    /\ cursor # circle
    /\ circle # <<0, 0>>
    /\ DistanceSq(circle, cursor) < deadzone * deadzone

\* C5: the animator is started exactly by the polls that change the active
\* label: a poll whose computed label equals the active one changes neither
\* the active label nor the animator's timer, and no other handler starts
\* the animator.
C5_StartOnlyOnChange ==
    [][/\ animStarted' <=> (pieLast' = "poll" /\ active' # active)
       /\ (pieLast' = "poll" /\ visible
           /\ ComputedLabel(circle, cursor, deadzone) = active)
          => (active' = active /\ animTimer' = animTimer)
       /\ pieLast' # "poll" => active' = active]_vars

\* C5 witness: a poll found the same label active again and left the idle
\* animator alone.
C5_Witness ==
    /\ pieLast = "poll"
    /\ visible
    /\ ~animStarted
    /\ ~animTimer
    /\ active \in Labels
    /\ progress[active] = ProgressMax

\* C6: a poll that finds the widget hidden stops the polling timer and
\* resets every label's progress, leaves the active label and the animator
\* alone, and no poll runs again before the next start().
C6_HiddenPollTerminates ==
    /\ [][(pieLast' = "poll" /\ ~visible) =>
            /\ ~pollTimer'
            /\ \A l \in Labels : progress'[l] = 0
            /\ active' = active
            /\ ~animStarted']_vars
    /\ [][~pollTimer => (pieLast' # "poll"
                         /\ (pollTimer' => pieLast' = "start"))]_vars

\* C6 witness: the loop ended itself on a hidden widget while a label was
\* active.
C6_Witness ==
    /\ pieLast = "poll"
    /\ ~pollTimer
    /\ ~visible
    /\ active \in Labels
    /\ animTimer

\* C7: after stop(hide) the polling timer is stopped and every label's
\* progress is at rest; the widget is hidden when hide is true and keeps its
\* visibility when hide is false.
C7_StopPostcondition ==
    [][pieLast' \in {"stop", "stop_keep"} =>
        /\ ~pollTimer'
        /\ \A l \in Labels : progress'[l] = 0
        /\ pieLast' = "stop" => ~visible'
        /\ pieLast' = "stop_keep" => visible' = visible]_vars

\* C7 witness: stop(hide=False) ended a session with an active label and
\* left the widget on screen.
C7_Witness ==
    /\ pieLast = "stop_keep"
    /\ visible
    /\ ~pollTimer
    /\ active \in Labels

(***************************************************************************)
(* Properties of DoubleAxisTracker                                         *)
(***************************************************************************)
\* C8: after a release that came before any handler was started, no handler
\* is tracking until the next press, however the mouse moves.
C8_NoStartAfterEarlyRelease == earlyRelease => (~hTracking /\ ~vTracking)

\* C9: a decision-timer tick starts nothing while both deltas are at most
\* 10 px; otherwise it starts exactly one handler, the horizontal one when
\* delta_x is the larger and the vertical one if not, and stops the decision
\* timer; ticks need a running timer, so at most one handler is started
\* between two presses.
C9_TickDecision ==
    /\ [][trackerLast' = "tick" =>
            LET dx == Abs(startPos[1] - mouse[1])
                dy == Abs(startPos[2] - mouse[2])
            IN  /\ decisionTimer
                /\ IF dx <= 10 /\ dy <= 10
                   THEN /\ hTracking' = hTracking
                        /\ vTracking' = vTracking
                        /\ decisionTimer'
                   ELSE /\ ~decisionTimer'
                        /\ IF dx > dy
                           THEN hTracking' /\ vTracking' = vTracking
                           ELSE vTracking' /\ hTracking' = hTracking]_vars
    /\ [](startsThisPress <= 1)

\* C9 witness: 15 px right and 3 px down of the press position, a tick has
\* started the horizontal handler and not the vertical one.
C9_Witness ==
    /\ trackerLast = "tick"
    /\ keyDown
    /\ startPos = <<0, 0>>
    /\ mouse = <<15, 3>>
    /\ hTracking
    /\ ~vTracking
    /\ ~decisionTimer

(***************************************************************************)
(* Properties of the press/release adapter                                 *)
(***************************************************************************)
CompleteCycle(log) ==
    /\ Len(log) = 3
    /\ log[1] = "on_key_press"
    /\ log[2] \in {"on_short_key_release", "on_long_key_release"}
    /\ log[3] = "on_every_key_release"

\* C10: the callbacks since a physical key-down are on_key_press alone while
\* the key is held and, once it is up, on_key_press, then exactly one of
\* on_short_key_release / on_long_key_release, then on_every_key_release.
C10_CallbackOrder ==
    IF physDown THEN callLog = <<"on_key_press">>
    ELSE callLog = <<>> \/ CompleteCycle(callLog)

\* C10 witness: a key held past the threshold was released and got the long
\* callback followed by on_every_key_release.
C10_Witness ==
    /\ ~physDown
    /\ shortVsLongPressTime > 0
    /\ callLog = <<"on_key_press", "on_long_key_release",
                   "on_every_key_release">>

\* C11: a key released t after its key-down gets the short callback iff
\* t < short_vs_long_press_time and the long one if not; t equal to the
\* threshold is long.
C11_ShortIffBelowThreshold ==
    [][(physDown /\ ~physDown') =>
        /\ Len(callLog') >= 2
        /\ callLog'[2] = IF now - downAt < shortVsLongPressTime
                         THEN "on_short_key_release"
                         ELSE "on_long_key_release"]_vars

\* C11 witness: a key released exactly at the threshold got the long
\* callback.
C11_Witness ==
    /\ ~physDown
    /\ shortVsLongPressTime > 0
    /\ now - downAt = shortVsLongPressTime
    /\ Len(callLog) = 3
    /\ callLog[2] = "on_long_key_release"

(***************************************************************************)
(* Properties of the configuration fields                                  *)
(***************************************************************************)
StoreWrites(log) == Cardinality({i \in 1 .. Len(log) : log[i][2] = "write_setting"})
CallbackRuns(log) == Len(log) - StoreWrites(log)

\* C12: a write of a value of the field's type changes nothing in the store
\* and runs no callback when the value equals what the field reads, or when
\* nothing is stored and the value is the default; in every other case it
\* writes the store exactly once, and only the entry of that field.
C12_IdempotentWrite ==
    [][(cfgLast' = "write" /\ TypeOf(cfgArg'[2]) = TypeOf(Default(cfgArg'[1])))
       => LET f == cfgArg'[1]
              v == cfgArg'[2]
          IN  /\ ~raised'
              /\ IF \/ Read(store, f) = v
                    \/ store[f] = NotStored /\ v = Default(f)
                 THEN store' = store /\ opLog' = <<>>
                 ELSE /\ StoreWrites(opLog') = 1
                      /\ store'[f] # store[f]
                      /\ \A g \in Fields \ {f} : store'[g] = store[g]]_vars

\* C12 witness: the default was written to a field with nothing stored and
\* with a callback registered: no store entry appeared, no callback ran.
C12_Witness ==
    /\ cfgLast = "write"
    /\ cfgArg[2] = Default(cfgArg[1])
    /\ store[cfgArg[1]] = NotStored
    /\ callbacks[cfgArg[1]] # <<>>
    /\ opLog = <<>>

\* C13: a write of a value whose type is not the type of the field's default
\* raises TypeError, leaves the store as it was and runs no callback.
C13_WrongTypeRejected ==
    [][(cfgLast' = "write" /\ TypeOf(cfgArg'[2]) # TypeOf(Default(cfgArg'[1])))
       => (raised' /\ store' = store /\ opLog' = <<>>)]_vars

\* C14: after Config.reset_defaults() every field reads its default,
\* whatever the store held before.
C14_ResetRestoresDefaults ==
    cfgLast = "reset" => \A f \in Fields : Read(store, f) = Default(f)

\* C14 witness: the sweep had to rewrite both fields.
C14_Witness ==
    /\ cfgLast = "reset"
    /\ StoreWrites(opLog) = Cardinality(Fields)
    /\ \A f \in Fields : store[f] = FieldToString(Default(f))

\* C15: get_sleep_time() returns 1000/fps rounded to the nearest integer for
\* a non-zero FPS limit, 1 for an FPS limit of 0, and never less than 1 ms.
C15_SleepTimeAtLeastOne ==
    cfgLast = "sleep" =>
        LET fps == Read(store, "FPS_LIMIT")[2]
        IN  /\ fps = 0 => sleepTime = 1
            /\ fps # 0 => 2 * Abs(fps * sleepTime - 1000) <= fps
            /\ sleepTime >= 1

(***************************************************************************)
(* Claims about the animator's start() and the sector mapping              *)
(***************************************************************************)
\* C17: LabelAnimator.start() leaves the one animation timer running,
\* whether or not it ran before, and changes no label's progress; one tick
\* of that timer then moves every label by at most one step.
C17_AnimatorRestart ==
    [][/\ animStarted' => (animTimer' /\ progress' = progress)
       /\ pieLast' = "update" =>
              \A l \in Labels : Abs(progress'[l] - progress[l]) <= ProgressStep
      ]_vars

\* C17 witness: start() was called while an animation was under way (a
\* label is between its bounds, so the timer was already running).
C17_Witness ==
    /\ pieLast = "poll"
    /\ animStarted
    /\ animTimer
    /\ \E l \in Labels : ~AtBound(l)

\* half of a sector's width, in the scaled degrees of AngleDifference
HalfSector == 180

\* C20: a poll with the widget visible and the cursor outside the deadzone
\* sets the active label to one label, the one whose sector (half a
\* label spacing to either side of its angle) holds the cursor's angle; no
\* other label's sector holds that angle in its interior, and a cursor at a
\* label's own angle selects that label.
C20_SectorMapping ==
    [][(pieLast' = "poll" /\ visible
        /\ ~InDeadzone(circle, cursor, deadzone))
       => LET angle == AngleFromPoint(circle, cursor)
          IN  /\ active' \in Labels
              /\ AngleDifference(active', angle) <= HalfSector
              /\ \A j \in Labels \ {active'} :
                     AngleDifference(j, angle) >= HalfSector
              /\ \A i \in Labels :
                     AngleDifference(i, angle) = 0 => active' = i]_vars

\* C20 witness: a poll outside the deadzone chose a label other than the
\* first one, strictly inside its sector.
C20_Witness ==
    /\ pieLast = "poll"
    /\ visible
    /\ ~InDeadzone(circle, cursor, deadzone)
    /\ active \in Labels \ {0}
    /\ AngleDifference(active, AngleFromPoint(circle, cursor)) < HalfSector

(***************************************************************************)
(* Claims about stopping                                                   *)
(***************************************************************************)
\* C16: PieManager.stop(hide) called right after the same stop(hide), or
\* after the poll that ended the loop by itself, leaves the poll timer, every
\* label's progress and the widget's visibility as they were; and
\* DoubleAxisTracker's release leaves both handlers idle whichever of them,
\* if any, was tracking.
C16_StopIdempotent ==
    /\ [][\A hide \in BOOLEAN :
              (pieLast' = StopTag(hide)
               /\ SessionEnded(hide, pieLast, pollTimer))
              => /\ pollTimer' = pollTimer
                 /\ progress' = progress
                 /\ visible' = visible]_vars
    /\ [][trackerLast' = "release" => (~hTracking' /\ ~vTracking')]_vars

\* C16 witness: a hiding stop() has just been repeated on a pie that was
\* shown before.
C16_Witness ==
    /\ stopRepeat
    /\ pieLast = "stop"
    /\ circle # NoPoint
    /\ ~pollTimer
    /\ ~visible

(***************************************************************************)
(* Claims about SingleAxisTracker and LayerPicker                          *)
(***************************************************************************)
\* C18: the slider handler is tracking exactly while the key is held;
\* on_key_press runs the action's press logic and then starts the handler,
\* on_every_key_release runs the action's release logic and then stops it,
\* so the handler is idle after every release.
C18_IdleTrackingIdle ==
    /\ handlerTracking <=> pickerKeyDown
    /\ pickerLast = "init" => ~handlerTracking
    /\ pickerLast = "press" =>
           /\ handlerTracking
           /\ Len(pickerLog) >= 2
           /\ SubSeq(pickerLog, Len(pickerLog) - 1, Len(pickerLog))
                  = <<"ComplexAction.on_key_press", "SliderHandler.start">>
    /\ pickerLast = "release" =>
           /\ ~handlerTracking
           /\ pickerLog = <<"ComplexAction.on_every_key_release",
                            "SliderHandler.stop">>

\* C18 witness: a plain SingleAxisTracker is idle again after a release.
C18_Witness ==
    /\ template = "SingleAxisTracker"
    /\ pickerLast = "release"
    /\ ~handlerTracking
    /\ ~pickerKeyDown

\* the nodes of the active document a strategy asks for
Candidates(strategy, doc, vis, cur) ==
    {n \in Nodes : /\ DocOf(n) = doc
                   /\ (strategy = "ALL" \/ vis[n] \/ n = cur)}

\* C19: every press of a LayerPicker installs, before the tracker's own
\* press logic and the handler's start, the list its pick strategy gives
\* for the document active at that moment: every candidate once, in
\* document order, whatever the slider held before.  With VISIBLE these
\* are the visible nodes and the current node, so the current node is
\* among the values.
C19_PressReenumerates ==
    [][(pickerLast' = "press" /\ template = "LayerPicker")
       => LET cur == currentNode[activeDocument]
              wanted == Candidates(pickStrategy, activeDocument,
                                   nodeVisible, cur)
          IN  /\ {valuesToCycle'[i] : i \in 1 .. Len(valuesToCycle')} = wanted
              /\ Len(valuesToCycle') = Cardinality(wanted)
              /\ \A i, j \in 1 .. Len(valuesToCycle') :
                     i < j => valuesToCycle'[i] < valuesToCycle'[j]
              /\ pickStrategy = "VISIBLE" =>
                     \E i \in 1 .. Len(valuesToCycle') : valuesToCycle'[i] = cur
              /\ pickerLog' = <<"Slider.set_values_to_cycle",
                                "ComplexAction.on_key_press",
                                "SliderHandler.start">>
              /\ handlerTracking']_vars

\* C19 witness: a later press with VISIBLE replaced the values of an earlier
\* press, and the current node is hidden.
C19_Witness ==
    /\ template = "LayerPicker"
    /\ pickStrategy = "VISIBLE"
    /\ pickerLast = "press"
    /\ oldValues # InitialValues
    /\ oldValues # valuesToCycle
    /\ ~nodeVisible[currentNode[activeDocument]]
    /\ Len(valuesToCycle) >= 2

(***************************************************************************)
(* Claims about the controllers                                            *)
(***************************************************************************)
\* the integer nearest to v2/2, the even one of the two when v2 is odd
IsRounded(r, v2) ==
    /\ Abs(2 * r - v2) <= 1
    /\ Abs(2 * r - v2) = 1 => r % 2 = 0

\* C21: set_value(v) compares round(v) with the remembered position: equal
\* triggers nothing, greater triggers one redo and moves the position up by
\* one, smaller triggers one undo and moves it down by one; the remembered
\* position is always the number of redos minus the number of undos.
C21_UndoPosition ==
    /\ [](UndoGetValue = redos - undos)
    /\ [][undoTriggered' # "init" =>
            \E r \in -(MaxUndoValue + 1) .. (MaxUndoValue + 1) :
                /\ IsRounded(r, undoArg')
                /\ r = undoState =>
                       /\ undoTriggered' = "none"
                       /\ UNCHANGED <<undoState, redos, undos>>
                /\ r > undoState =>
                       /\ undoTriggered' = "edit_redo"
                       /\ undoState' = undoState + 1
                       /\ redos' = redos + 1 /\ undos' = undos
                /\ r < undoState =>
                       /\ undoTriggered' = "edit_undo"
                       /\ undoState' = undoState - 1
                       /\ undos' = undos + 1 /\ redos' = redos]_vars

\* C21 witness: after redos and undos, set_value(0.5) at position 0
\* triggered nothing.
C21_Witness ==
    /\ undoTriggered = "none"
    /\ undoArg = 1
    /\ undoState = 0
    /\ redos >= 2
    /\ undos >= 2

\* C22: get_label(name) raises nothing; it returns None when the name is
\* not in the host's catalog at the time of the call, and the preset's
\* pixmap when it is.
C22_LabelOrNone ==
    [][presetLast' = "get_label" =>
          /\ ~labelRaised'
          /\ labelArg' \notin presetCatalog => labelResult' = NoPixmap
          /\ labelArg' \in presetCatalog =>
                 labelResult' = Pixmap(labelArg') /\ labelResult' # NoPixmap
      ]_vars

\* C22 witness: get_label of a name missing from a non-empty catalog.
C22_Witness ==
    /\ presetLast = "get_label"
    /\ labelArg \notin presetCatalog
    /\ presetCatalog # {}
    /\ labelResult = NoPixmap
    /\ ~labelRaised

(***************************************************************************)
(* Claims about the pie's display, the callbacks and the node controllers  *)
(***************************************************************************)
\* C23: after start() the widget is visible and centred on the cursor, the
\* polling timer runs, the widget is not draggable and the settings window
\* is hidden; a visible widget is hidden only by stop(hide=True) or by an
\* external hide.
C23_DisplayedBetweenStartAndStop ==
    /\ [](pieLast = "start" =>
              /\ visible
              /\ circle = cursor
              /\ pollTimer
              /\ ~draggable
              /\ ~settingsVisible)
    /\ [][(visible /\ ~visible') => pieLast' \in {"stop", "hide"}]_vars

\* C23 witness: the pie has just been started again, away from the origin,
\* while the animation of an earlier session is still running.
C23_Witness ==
    /\ pieLast = "start"
    /\ animTimer
    /\ visible
    /\ pollTimer
    /\ circle = cursor
    /\ circle # <<0, 0>>
    /\ ~draggable
    /\ ~settingsVisible

\* C24: a write that is accepted and not redundant first writes the
\* serialized value to the store and then runs the field's callbacks, one
\* call per registration, in registration order; a redundant write and a
\* write that raised run no callback.
C24_WriteThenCallbacks ==
    [][cfgLast' = "write" =>
          LET f == cfgArg'[1]
              v == cfgArg'[2]
              redundant == \/ PyEq(Read(store, f), v)
                           \/ store[f] = NotStored /\ PyEq(v, Default(f))
          IN  /\ (raised' \/ redundant) => CallbackRuns(opLog') = 0
              /\ (~raised' /\ ~redundant) =>
                     /\ store'[f] = FieldToString(v)
                     /\ Len(opLog') = 1 + Len(callbacks[f])
                     /\ opLog'[1] = <<f, "write_setting">>
                     /\ \A i \in 1 .. Len(callbacks[f]) :
                            opLog'[i + 1] = <<f, callbacks[f][i]>>]_vars

\* C24 witness: a write ran two different callbacks after the store write.
C24_Witness ==
    /\ cfgLast = "write"
    /\ ~raised
    /\ Len(opLog) = 3
    /\ opLog[1][2] = "write_setting"
    /\ opLog[2][2] # opLog[3][2]

\* C25: set_value(v) of a node-scoped controller makes no host call when
\* the node captured at the last refresh() already holds v; otherwise it
\* writes that one property of that node and then refreshes the document,
\* once each.
C25_NodeWriteChecked ==
    [][(ctlLast' = "set_value" /\ ~ctlRaised') =>
          LET kind == ctlArg'[1]
              value == ctlArg'[2]
              node == capturedNode
          IN  IF layers[node][kind] = value
              THEN ctlLog' = <<>> /\ layers' = layers
              ELSE /\ ctlLog' = <<"Node.property = value", "Document.refresh">>
                   /\ layers'[node][kind] = value
                   /\ \A n \in LayerIds : \A k \in Controllers :
                          (n # node \/ k # kind) =>
                              layers'[n][k] = layers[n][k]]_vars

\* C25 witness: a set_value found its value already on the captured node,
\* which is no longer the host's active node, and made no host call.
C25_Witness ==
    /\ ctlLast = "set_value"
    /\ ~ctlRaised
    /\ ctlLog = <<>>
    /\ capturedNode # hostActiveNode
    /\ layers[capturedNode][ctlArg[1]] = ctlArg[2]
    /\ layers[hostActiveNode][ctlArg[1]] # ctlArg[2]

(***************************************************************************)
(* Claims about OffsetGridLayout and LabelWidget                           *)
(***************************************************************************)
\* C26: the layout's widget list never holds a widget twice, and an insert
\* or append of a widget that is already held leaves the list as it is;
\* one of a widget not yet held makes the list one longer.
C26_NoDuplicateWidgets ==
    /\ [](\A i, j \in 1 .. Len(widgets) : i # j => widgets[i] # widgets[j])
    /\ [][gridLast' \in {"insert", "append"} =>
            LET w == gridArg'
            IN  IF \E i \in 1 .. Len(widgets) : widgets[i] = w
                THEN widgets' = widgets
                ELSE /\ Len(widgets') = Len(widgets) + 1
                     /\ \E i \in 1 .. Len(widgets') : widgets'[i] = w]_vars

\* C26 witness: an insert of the widget held at the back of the list was
\* ignored.
C26_Witness ==
    /\ gridLast = "insert"
    /\ gridSkipped = 1
    /\ Len(widgets) >= 3
    /\ widgets[Len(widgets)] = gridArg

\* indices whose positions are compared
MaxGridIndex == 12

\* the cells of the 2x2 block whose top left cell is pos
Block(pos) == {<<pos[1] + r, pos[2] + c>> : r \in {0, 1}, c \in {0, 1}}

\* the row of widgets (0, 1, 2, ...) a grid position lies in
WidgetRow(pos) == pos[1] \div 2

\* C27: for max_columns >= 1 the blocks of two distinct indices share no
\* cell, positions follow the index order row by row, and the rows hold
\* max_columns, max_columns - 1, max_columns, ... widgets, the shorter rows
\* shifted by one cell (half a widget); the layout puts every held widget
\* on the position of its index.
C27_OffsetRows ==
    /\ \A i, j \in 0 .. MaxGridIndex :
           LET pi == GetPosition(i, maxColumns)
               pj == GetPosition(j, maxColumns)
           IN  /\ i # j => Block(pi) \cap Block(pj) = {}
               /\ i < j => \/ pi[1] < pj[1]
                           \/ pi[1] = pj[1] /\ pi[2] < pj[2]
               /\ pi[1] % 2 = 0
               /\ pi[2] % 2 = WidgetRow(pi) % 2
    /\ \A i \in 0 .. (MaxGridIndex - 2 * maxColumns) :
           LET pi == GetPosition(i, maxColumns)
               inRow == {j \in 0 .. MaxGridIndex :
                            GetPosition(j, maxColumns)[1] = pi[1]}
           IN  Cardinality(inRow) =
                   IF WidgetRow(pi) % 2 = 0 THEN maxColumns
                   ELSE maxColumns - 1
    /\ Len(placed) = Len(widgets)
    /\ \A i \in 1 .. Len(placed) : placed[i] = GetPosition(i - 1, maxColumns)

\* C27 witness: with two columns the layout holds a full group and has
\* started the next one.
C27_Witness ==
    /\ maxColumns = 2
    /\ Len(widgets) = 4
    /\ placed[3] = <<2, 1>>
    /\ placed[4] = <<4, 0>>

\* C28: a LabelWidget that is not enabled is not draggable, whatever was
\* assigned to its enabled and draggable properties, and a mouse press
\* starts a drag only when the widget is draggable and exactly the left
\* button is pressed.
C28_DisabledNotDraggable ==
    /\ [](~lwEnabled => ~lwDraggable)
    /\ [][lwDrags' # lwDrags => (lwDraggable /\ lwButtons' = "left")]_vars

(***************************************************************************)
(* Claims about interleavings of timers and key events                     *)
(***************************************************************************)
\* C29: the horizontal and the vertical handler are never tracking at the
\* same time, and no press is followed by more than one handler start
\* before the next press.
C29_OneHandlerAtATime ==
    /\ ~(hTracking /\ vTracking)
    /\ startsThisPress <= 1

\* C30: from a stop() until the next start(), that is while the polling
\* timer is not running, every label's progress is at rest, whatever
\* animator ticks fire in between.
C30_RestAfterStop ==
    ~pollTimer => \A l \in Labels : progress[l] = ProgressReset(progress[l])

\* C31: whenever the polling timer is running and the animator's timer is
\* idle, the active label's progress is 1 (ProgressMax) and every other
\* label's progress is 0, in a first session and in every later one.
C31_ProgressAgreesWithSelection ==
    (pollTimer /\ ~animTimer) =>
        \A l \in Labels :
            progress[l] = IF l = active THEN ProgressMax ELSE 0

====
